---- MODULE Spec2Model ----
(***************************************************************************)
(* Model of the feature pipeline of the hourly Divvy trip predictor:       *)
(*   - ReverseGeocoder.give_ids_to_the_new_names and                       *)
(*     ReverseGeocoder.put_new_information_in_geodata (the geo registry),  *)
(*   - ReverseGeocoder.reverse_geocode,                                    *)
(*   - Geocoder.geocode and its inner _trigger_geocoder,                   *)
(*   - finish_feature_engineering and the table transforms it sequences.   *)
(* Every component has its own specification (SpecReg, SpecRev, SpecGeo,   *)
(* SpecFE); the variables of the other components keep their idle values.  *)
(***************************************************************************)
EXTENDS Integers, Sequences, FiniteSets, TLC

VARIABLES
    \* ---- geo registry (give_ids_to_the_new_names / put_new_information_in_geodata)
    saved_geodata,                  \* the caller's registry list (mutated in place by extend)
    new_addresses_and_coordinates,  \* the caller's list of new records (its dicts are mutated in place)
    reg_op,                         \* the last operation called: "none", "give_ids", "put"
    reg_outcome,                    \* how it ended: "none", "returned", "ValueError", "IndexError"
    reg_before,                     \* ghost: saved_geodata when the last operation was called
    new_before,                     \* ghost: new_addresses_and_coordinates when it was called
    reg_seed,                       \* ghost: the registry the run started from
    reg_calls,                      \* number of operations called so far
    \* ---- ReverseGeocoder.reverse_geocode
    coordinates,                    \* self.coordinates, the input sequence
    rev_pc,                         \* "idle", "loop" (inside the for loop), "returned"
    rev_idx,                        \* position of the for loop in coordinates (1-based)
    encountered_coordinates,        \* the list of coordinates resolved so far
    new_geodata,                    \* the output list of {station_name, coordinate}
    primary_reverse_requests,       \* ghost: the coordinates sent to Nominatim, in order
    secondary_reverse_requests,     \* ghost: the coordinates sent to Photon, in order
    rev_fate,                       \* ghost: what happened to each input position so far
    \* ---- Geocoder.geocode
    place_names,                    \* self.place_names
    primary_answer,                 \* environment: what Nominatim does with each name
    secondary_answer,               \* environment: what Photon does with each name
    geo_pc,                         \* "idle", "start", "collect", "secondary", "return", "returned", "raised"
    geo_error,                      \* the exception that left geocode, "none" if none
    nominatim_results,              \* the dict of line 71, in insertion order
    places_missed_by_nominatim,     \* the list of line 72
    final_places_and_points,        \* the dict of line 73
    geo_result,                     \* the dict geocode returned
    primary_requests,               \* ghost: the names sent to Nominatim.geocode, in order
    secondary_requests,             \* ghost: the names sent to Photon.geocode, in order
    \* ---- finish_feature_engineering
    features,                       \* the caller's table (mutated in place)
    scenario,                       \* "start" or "end"
    geocode,                        \* the geocode flag
    fe_pc,                          \* "idle", "start", "hours_days", "average", "checked", "returned", "raised"
    fe_raised_in,                   \* the step that raised: "none", "hours_days", "average", "assert", "coordinates"
    fe_error,                       \* the exception that left the call, "none" if none
    final_features,                 \* features_with_hours_and_days / final_features (one object)
    fe_result,                      \* the table the call returned
    \* ---- add_avg_trips_last_4_weeks, applied repeatedly to one table
    avg_table,                      \* the table (the call inserts into it in place)
    avg_input,                      \* ghost: the table before the first application
    avg_once,                       \* ghost: the table after the first application
    avg_applied,                    \* number of applications so far
    avg_error,                      \* the exception of the last application, "none" if none
    \* ---- rerun_feature_pipeline wrapping load_raw_local_geodata (one call)
    rounding_indexer,               \* state of the directory ROUNDING_INDEXER
    mixed_indexer,                  \* state of the directory MIXED_INDEXER
    rr_scenario,                    \* the scenario argument, "start" or "end"
    rr_pc,                          \* position of the wrapper
    rr_fn_calls,                    \* invocations of the wrapped function so far
    rr_pipeline_runs,               \* runs of make_training_data so far
    rr_first,                       \* outcome of the first invocation
    rr_result,                      \* what the wrapper gave its caller
    \* ---- add_coordinates_to_dataframe (one call)
    coord_features,                 \* the table (the call assigns into it in place)
    coord_input,                    \* ghost: the table as it was handed over
    coord_scenario,                 \* "start" or "end"
    coord_primary,                  \* what Nominatim does with each place name
    coord_secondary,                \* what Photon does with each place name
    coord_has_to_list,              \* whether the array unique() returns has to_list
    coord_pc,                       \* "start", "returned", "raised"
    coord_error,                    \* the exception that left the call, "none" if none
    coord_result                    \* the table the call returned

regVars == <<saved_geodata, new_addresses_and_coordinates, reg_op, reg_outcome,
             reg_before, new_before, reg_seed, reg_calls>>

revVars == <<coordinates, rev_pc, rev_idx, encountered_coordinates, new_geodata,
             primary_reverse_requests, secondary_reverse_requests, rev_fate>>

geoVars == <<place_names, primary_answer, secondary_answer, geo_pc, geo_error,
             nominatim_results, places_missed_by_nominatim, final_places_and_points,
             geo_result, primary_requests, secondary_requests>>

feVars == <<features, scenario, geocode, fe_pc, fe_raised_in, fe_error,
            final_features, fe_result>>

avgVars == <<avg_table, avg_input, avg_once, avg_applied, avg_error>>

rrVars == <<rounding_indexer, mixed_indexer, rr_scenario, rr_pc, rr_fn_calls,
            rr_pipeline_runs, rr_first, rr_result>>

coordVars == <<coord_features, coord_input, coord_scenario, coord_primary,
               coord_secondary, coord_has_to_list, coord_pc, coord_error, coord_result>>

vars == <<regVars, revVars, geoVars, feVars, avgVars, rrVars, coordVars>>

\* The variables a component leaves alone.
othersOfReg == <<revVars, geoVars, feVars, avgVars, rrVars, coordVars>>
othersOfRev == <<regVars, geoVars, feVars, avgVars, rrVars, coordVars>>
othersOfGeo == <<regVars, revVars, feVars, avgVars, rrVars, coordVars>>
othersOfFE == <<regVars, revVars, geoVars, avgVars, rrVars, coordVars>>
othersOfAvg == <<regVars, revVars, geoVars, feVars, rrVars, coordVars>>
othersOfRerun == <<regVars, revVars, geoVars, feVars, avgVars, coordVars>>
othersOfCoord == <<regVars, revVars, geoVars, feVars, avgVars, rrVars>>

-----------------------------------------------------------------------------
(* Bounds of the model.                                                    *)
MaxSeedLen == 2      \* longest seed registry enumerated
MaxSeedId == 3       \* largest station_id of an enumerated seed registry
MaxNew == 1          \* longest list of new records enumerated for one call
MaxCalls == 2        \* number of registry operations in one behaviour
MaxCoords == 3       \* longest coordinate sequence handed to reverse_geocode
MaxPlaces == 3       \* longest list of place names handed to geocode
MaxRows == 2         \* most rows of a table handed to finish_feature_engineering
MaxApply == 2        \* applications of add_avg_trips_last_4_weeks to one table
MaxCoordRows == 3    \* most rows of a table handed to add_coordinates_to_dataframe

-----------------------------------------------------------------------------
(* Helpers on sequences.                                                   *)
SeqsUpTo(S, n) == UNION {[1..k -> S] : k \in 0..n}

Range(s) == {s[i] : i \in 1..Len(s)}

Min2(a, b) == IF a <= b THEN a ELSE b

-----------------------------------------------------------------------------
(*                         THE GEO REGISTRY                                *)

\* A record of the persisted registry: {station_id, station_name, coordinate}.
SeedRecord(id) == [station_id |-> id, station_name |-> "seed", coordinate |-> <<41, -87>>]

\* The records reverse_geocode produces: {station_name, coordinate}, no station_id yet.
NewRecords == { [station_name |-> "Clark St", coordinate |-> <<41, -88>>],
                [station_name |-> "None", coordinate |-> <<42, -87>>] }

\* The registry of the spec's example, ids 5 and 9, and its three new records.
ExampleSeedIds == <<5, 9>>
ExampleNewRecords ==
    << [station_name |-> "Clark St", coordinate |-> <<41, -88>>],
       [station_name |-> "None", coordinate |-> <<42, -87>>],
       [station_name |-> "Clark St", coordinate |-> <<41, -88>>] >>

\* The lists of new records handed to a call.
NewRecordLists == SeqsUpTo(NewRecords, MaxNew) \cup {ExampleNewRecords}

SeedRegistries ==
    { [i \in 1..Len(ids) |-> SeedRecord(ids[i])] :
        ids \in SeqsUpTo(0..MaxSeedId, MaxSeedLen) \cup {ExampleSeedIds} }

HasId(r) == "station_id" \in DOMAIN r

\* new_information["station_id"] = value : sets or overwrites the key of the dict.
SetStationId(r, id) ==
    [station_id |-> id, station_name |-> r.station_name, coordinate |-> r.coordinate]

StationIds(registry) == {registry[i].station_id : i \in 1..Len(registry)}

\* Lines 146-150: the distinct station_ids of the registry, in order of first occurrence.
RECURSIVE established_ids(_)
established_ids(registry) ==
    IF registry = <<>> THEN <<>>
    ELSE LET front == established_ids(SubSeq(registry, 1, Len(registry) - 1))
             station_id == registry[Len(registry)].station_id
         IN IF station_id \in Range(front) THEN front ELSE Append(front, station_id)

\* A faulty variant of max: max(ids, default=0), which never raises.
max_with_default(ids) ==
    IF ids = <<>> THEN [raised |-> FALSE, value |-> 0]
    ELSE [raised |-> FALSE,
          value |-> CHOOSE m \in Range(ids) : \A x \in Range(ids) : x <= m]

\* Python's max() of a list: raises ValueError on an empty list.
max(ids) ==
    IF ids = <<>> THEN [raised |-> TRUE, value |-> 0]
    ELSE [raised |-> FALSE,
          value |-> CHOOSE m \in Range(ids) : \A x \in Range(ids) : x <= m]

\* np.arange(start, stop): start, start+1, ..., stop-1; empty when stop <= start.
arange(start, stop) ==
    [i \in 1..(IF stop > start THEN stop - start ELSE 0) |-> start + i - 1]

\* A faulty variant of new_ids_start: the ids start at the maximum itself.
new_ids_start_at_max(maximum) == maximum

\* Line 153: start = max(established_ids) + 1.
new_ids_start(maximum) == maximum + 1

\* Line 154: stop = len(established_ids) + len(new_addresses_and_coordinates) + 1.
new_ids_stop(established, new) == Len(established) + Len(new) + 1

\* Lines 146-165. The loop assigns new_ids[0], new_ids[1], ... to the records in
\* order, mutating each dict in place; indexing past the end of new_ids raises
\* IndexError and leaves the records assigned so far modified.
give_ids_to_the_new_names(new, saved) ==
    LET established == established_ids(saved)
        maximum == max(established)
    IN  IF maximum.raised
        THEN [outcome |-> "ValueError", new |-> new]
        ELSE LET new_ids == arange(new_ids_start(maximum.value),
                                   new_ids_stop(established, new))
                 assigned == Min2(Len(new), Len(new_ids))
             IN [outcome |-> IF Len(new) > Len(new_ids) THEN "IndexError" ELSE "returned",
                 new |-> [i \in 1..Len(new) |->
                            IF i <= assigned THEN SetStationId(new[i], new_ids[i])
                            ELSE new[i]]]

\* A faulty variant of extend: the registry is replaced by the new records.
extend_replacing(registry, new) == new

\* Line 178: saved_geodata.extend(new_addresses_and_coordinates).
extend(registry, new) == registry \o new

IdleReg ==
    /\ saved_geodata = <<>>
    /\ new_addresses_and_coordinates = <<>>
    /\ reg_op = "none"
    /\ reg_outcome = "none"
    /\ reg_before = <<>>
    /\ new_before = <<>>
    /\ reg_seed = <<>>
    /\ reg_calls = 0

InitReg ==
    /\ saved_geodata \in SeedRegistries
    /\ reg_seed = saved_geodata
    /\ new_addresses_and_coordinates = <<>>
    /\ reg_op = "none"
    /\ reg_outcome = "none"
    /\ reg_before = <<>>
    /\ new_before = <<>>
    /\ reg_calls = 0

\* A direct call of the static method give_ids_to_the_new_names.
GiveIds(new) ==
    /\ reg_calls < MaxCalls
    /\ LET r == give_ids_to_the_new_names(new, saved_geodata)
       IN /\ new_addresses_and_coordinates' = r.new
          /\ reg_outcome' = r.outcome
    /\ reg_op' = "give_ids"
    /\ reg_before' = saved_geodata
    /\ new_before' = new
    /\ reg_calls' = reg_calls + 1
    /\ UNCHANGED <<saved_geodata, reg_seed>>
    /\ UNCHANGED othersOfReg

\* Lines 167-178: put_new_information_in_geodata; an exception of
\* give_ids_to_the_new_names propagates before extend is reached.
PutNewInformation(new) ==
    /\ reg_calls < MaxCalls
    /\ LET r == give_ids_to_the_new_names(new, saved_geodata)
       IN /\ new_addresses_and_coordinates' = r.new
          /\ reg_outcome' = r.outcome
          /\ saved_geodata' = IF r.outcome = "returned"
                              THEN extend(saved_geodata, r.new)
                              ELSE saved_geodata
    /\ reg_op' = "put"
    /\ reg_before' = saved_geodata
    /\ new_before' = new
    /\ reg_calls' = reg_calls + 1
    /\ UNCHANGED reg_seed
    /\ UNCHANGED othersOfReg

NextReg ==
    \/ \E new \in NewRecordLists : GiveIds(new)
    \/ \E new \in NewRecordLists : PutNewInformation(new)

-----------------------------------------------------------------------------
(*                  ReverseGeocoder.reverse_geocode                        *)

\* The coordinates of the runs: a station, and (0, 0).
Coordinates == { <<41, -87>>, <<42, -88>>, <<0, 0>> }

\* What str() of a resolved Location can be.
Addresses == { "Clark St", "Lake St" }

\* geopy's reverse() returns None when the service has no result.
PyNone == "<None>"

\* What a reverse() request can return: a Location or None (raising is the
\* other outcome, taken by RevSecondary and RevDrop).
ReverseReturns == Addresses \cup {PyNone}

\* str(x): the address of a Location; "None" for None.
str(x) == IF x = PyNone THEN "None" ELSE x

\* A faulty variant of not_encountered: the membership test always passes.
not_encountered_always(coordinate, encountered) == TRUE

\* A faulty variant of not_encountered: only the coordinate resolved last is
\* compared.
not_encountered_last_only(coordinate, encountered) ==
    IF encountered = <<>> THEN TRUE ELSE coordinate # encountered[Len(encountered)]

\* Line 109: coordinate not in encountered_coordinates.
not_encountered(coordinate, encountered) == coordinate \notin Range(encountered)

\* A faulty variant of station_record: latitude and longitude change places.
station_record_swapped(obtained_address, coordinate) ==
    [station_name |-> obtained_address, coordinate |-> <<coordinate[2], coordinate[1]>>]

\* Lines 124-127: the record appended for a resolved coordinate.
station_record(obtained_address, coordinate) ==
    [station_name |-> obtained_address, coordinate |-> coordinate]

IdleRev ==
    /\ coordinates = <<>>
    /\ rev_pc = "idle"
    /\ rev_idx = 1
    /\ encountered_coordinates = <<>>
    /\ new_geodata = <<>>
    /\ primary_reverse_requests = <<>>
    /\ secondary_reverse_requests = <<>>
    /\ rev_fate = <<>>

\* Lines 103-106: the state on entering the for loop.
InitRev ==
    /\ coordinates \in SeqsUpTo(Coordinates, MaxCoords)
    /\ rev_pc = "loop"
    /\ rev_idx = 1
    /\ encountered_coordinates = <<>>
    /\ new_geodata = <<>>
    /\ primary_reverse_requests = <<>>
    /\ secondary_reverse_requests = <<>>
    /\ rev_fate = <<>>

InLoop == rev_pc = "loop" /\ rev_idx <= Len(coordinates)

\* Line 109, false branch: the coordinate was resolved earlier in this call.
RevSkip ==
    /\ InLoop
    /\ ~ not_encountered(coordinates[rev_idx], encountered_coordinates)
    /\ rev_idx' = rev_idx + 1
    /\ rev_fate' = Append(rev_fate, "skipped")
    /\ UNCHANGED <<coordinates, rev_pc, encountered_coordinates, new_geodata,
                   primary_reverse_requests, secondary_reverse_requests>>
    /\ UNCHANGED othersOfRev

\* Lines 110-111 and 122-128: Nominatim answers (a Location or None).
RevPrimary(answer) ==
    /\ InLoop
    /\ not_encountered(coordinates[rev_idx], encountered_coordinates)
    /\ primary_reverse_requests' = Append(primary_reverse_requests, coordinates[rev_idx])
    /\ encountered_coordinates' = Append(encountered_coordinates, coordinates[rev_idx])
    /\ new_geodata' = Append(new_geodata, station_record(str(answer), coordinates[rev_idx]))
    /\ rev_idx' = rev_idx + 1
    /\ rev_fate' = Append(rev_fate, "primary")
    /\ UNCHANGED <<coordinates, rev_pc, secondary_reverse_requests>>
    /\ UNCHANGED othersOfRev

\* Lines 112-116 and 122-128: Nominatim raises, Photon answers.
RevSecondary(answer) ==
    /\ InLoop
    /\ not_encountered(coordinates[rev_idx], encountered_coordinates)
    /\ primary_reverse_requests' = Append(primary_reverse_requests, coordinates[rev_idx])
    /\ secondary_reverse_requests' = Append(secondary_reverse_requests, coordinates[rev_idx])
    /\ encountered_coordinates' = Append(encountered_coordinates, coordinates[rev_idx])
    /\ new_geodata' = Append(new_geodata, station_record(str(answer), coordinates[rev_idx]))
    /\ rev_idx' = rev_idx + 1
    /\ rev_fate' = Append(rev_fate, "secondary")
    /\ UNCHANGED <<coordinates, rev_pc>>
    /\ UNCHANGED othersOfRev

\* Lines 112-120: Nominatim raises, Photon raises, `continue`.
RevDrop ==
    /\ InLoop
    /\ not_encountered(coordinates[rev_idx], encountered_coordinates)
    /\ primary_reverse_requests' = Append(primary_reverse_requests, coordinates[rev_idx])
    /\ secondary_reverse_requests' = Append(secondary_reverse_requests, coordinates[rev_idx])
    /\ rev_idx' = rev_idx + 1
    /\ rev_fate' = Append(rev_fate, "dropped")
    /\ UNCHANGED <<coordinates, rev_pc, encountered_coordinates, new_geodata>>
    /\ UNCHANGED othersOfRev

\* Line 130: the loop is exhausted, return new_geodata.
RevReturn ==
    /\ rev_pc = "loop"
    /\ rev_idx > Len(coordinates)
    /\ rev_pc' = "returned"
    /\ UNCHANGED <<coordinates, rev_idx, encountered_coordinates, new_geodata,
                   primary_reverse_requests, secondary_reverse_requests, rev_fate>>
    /\ UNCHANGED othersOfRev

NextRev ==
    \/ RevSkip
    \/ \E answer \in ReverseReturns : RevPrimary(answer)
    \/ \E answer \in ReverseReturns : RevSecondary(answer)
    \/ RevDrop
    \/ RevReturn

-----------------------------------------------------------------------------
(*                         Geocoder.geocode                                *)

\* A place name is a Python str: the sequence of its characters.
PlaceNames == { <<"L", "k">>, <<"S", "t">>, <<"O", "a", "k">> }

\* What geocoder.geocode(place, timeout=120) can do: return a Location, return
\* None (no result), or raise. A service treats a name the same way each time it
\* is asked within one call of Geocoder.geocode.
Location(point) == [kind |-> "location", point |-> point]
NoResult == [kind |-> "none", point |-> <<>>]
ServiceError == [kind |-> "raises", point |-> <<>>]
GeocodeAnswers == { Location(<<41, -87>>), NoResult, ServiceError }

\* The sentinel of line 67.
Sentinel == <<0, 0>>

\* A dict is the sequence of its items in insertion order.
EmptyDict == <<>>
Keys(dict) == {dict[i].place : i \in 1..Len(dict)}
Item(place, point) == [place |-> place, point |-> point]

\* Line 60: place in places_and_points.keys().
already_geocoded(place, places_and_points) == place \in Keys(places_and_points)

\* Lines 63-67, one place that is not in the dict yet.
\*   try:    places_and_points[place] = geocoder.geocode(place, timeout=120)[-1]
\*   except  geocoder.geocode(place, timeout=120) is None:  ...
\* A Location's last component is its (latitude, longitude). None[-1] raises
\* TypeError, a failing service raises its own error. The except clause then
\* EVALUATES its expression, which sends the request again: when that raises, the
\* service's error propagates; otherwise the expression is a bool, and matching an
\* exception against a bool raises TypeError. The handler body (the sentinel of
\* line 67) is never reached.
geocode_one(answer, place) ==
    IF answer[place].kind = "location"
    THEN [raised |-> FALSE, error |-> "none", requests |-> <<place>>,
          item |-> <<Item(place, answer[place].point)>>]
    ELSE [raised |-> TRUE,
          error |-> IF answer[place].kind = "raises" THEN "GeocoderServiceError" ELSE "TypeError",
          requests |-> <<place, place>>,
          item |-> <<>>]

\* Lines 58-69: the loop of _trigger_geocoder from position i on, with the dict
\* and the requests made so far.
RECURSIVE trigger_loop(_, _, _, _, _)
trigger_loop(answer, names, i, places_and_points, requests) ==
    IF i > Len(names)
    THEN [raised |-> FALSE, error |-> "none",
          places_and_points |-> places_and_points, requests |-> requests]
    ELSE IF already_geocoded(names[i], places_and_points)
    THEN trigger_loop(answer, names, i + 1, places_and_points, requests)
    ELSE LET one == geocode_one(answer, names[i])
         IN IF one.raised
            THEN [raised |-> TRUE, error |-> one.error,
                  places_and_points |-> places_and_points,
                  requests |-> requests \o one.requests]
            ELSE trigger_loop(answer, names, i + 1,
                              places_and_points \o one.item, requests \o one.requests)

\* Lines 48-69: _trigger_geocoder(geocoder, place_names).
trigger_geocoder(answer, names) == trigger_loop(answer, names, 1, EmptyDict, <<>>)

\* `value == (0, 0)` of line 72, where value is a character of a key: a str is
\* never equal to a tuple.
character_is_sentinel(value) == FALSE

\* Line 72: [key for key, value in nominatim_results if value == (0, 0)].
\* Iterating a dict yields its keys; `key, value = <a str>` unpacks the characters
\* of the name and raises ValueError unless the name has exactly two characters.
RECURSIVE collect_missed(_, _, _)
collect_missed(dict, i, missed) ==
    IF i > Len(dict) THEN [raised |-> FALSE, missed |-> missed]
    ELSE LET name == dict[i].place
         IN IF Len(name) # 2
            THEN [raised |-> TRUE, missed |-> missed]
            ELSE collect_missed(dict, i + 1,
                    IF character_is_sentinel(name[2])
                    THEN Append(missed, <<name[1]>>) ELSE missed)

IdleGeo ==
    /\ place_names = <<>>
    /\ primary_answer = <<>>
    /\ secondary_answer = <<>>
    /\ geo_pc = "idle"
    /\ geo_error = "none"
    /\ nominatim_results = EmptyDict
    /\ places_missed_by_nominatim = <<>>
    /\ final_places_and_points = EmptyDict
    /\ geo_result = EmptyDict
    /\ primary_requests = <<>>
    /\ secondary_requests = <<>>

\* geocode() is entered on a constructed Geocoder; the two services are the
\* environment.
InitGeo ==
    /\ place_names \in SeqsUpTo(PlaceNames, MaxPlaces)
    /\ primary_answer \in [PlaceNames -> GeocodeAnswers]
    /\ secondary_answer \in [PlaceNames -> GeocodeAnswers]
    /\ geo_pc = "start"
    /\ geo_error = "none"
    /\ nominatim_results = EmptyDict
    /\ places_missed_by_nominatim = <<>>
    /\ final_places_and_points = EmptyDict
    /\ geo_result = EmptyDict
    /\ primary_requests = <<>>
    /\ secondary_requests = <<>>

\* Line 71: the Nominatim pass over self.place_names.
GeoPrimaryPass ==
    /\ geo_pc = "start"
    /\ LET r == trigger_geocoder(primary_answer, place_names)
       IN /\ primary_requests' = r.requests
          /\ IF r.raised
             THEN /\ geo_pc' = "raised"
                  /\ geo_error' = r.error
                  /\ UNCHANGED nominatim_results
             ELSE /\ geo_pc' = "collect"
                  /\ nominatim_results' = r.places_and_points
                  /\ UNCHANGED geo_error
    /\ UNCHANGED <<place_names, primary_answer, secondary_answer,
                   places_missed_by_nominatim, final_places_and_points, geo_result,
                   secondary_requests>>
    /\ UNCHANGED othersOfGeo

\* Line 72: the names whose value is the sentinel.
GeoCollect ==
    /\ geo_pc = "collect"
    /\ LET r == collect_missed(nominatim_results, 1, <<>>)
       IN IF r.raised
          THEN /\ geo_pc' = "raised"
               /\ geo_error' = "ValueError"
               /\ UNCHANGED places_missed_by_nominatim
          ELSE /\ geo_pc' = "secondary"
               /\ places_missed_by_nominatim' = r.missed
               /\ UNCHANGED geo_error
    /\ UNCHANGED <<place_names, primary_answer, secondary_answer, nominatim_results,
                   final_places_and_points, geo_result, primary_requests,
                   secondary_requests>>
    /\ UNCHANGED othersOfGeo

\* Line 73: the Photon pass over the names collected.
GeoSecondaryPass ==
    /\ geo_pc = "secondary"
    /\ LET r == trigger_geocoder(secondary_answer, places_missed_by_nominatim)
       IN /\ secondary_requests' = r.requests
          /\ IF r.raised
             THEN /\ geo_pc' = "raised"
                  /\ geo_error' = r.error
                  /\ UNCHANGED final_places_and_points
             ELSE /\ geo_pc' = "return"
                  /\ final_places_and_points' = r.places_and_points
                  /\ UNCHANGED geo_error
    /\ UNCHANGED <<place_names, primary_answer, secondary_answer, nominatim_results,
                   places_missed_by_nominatim, geo_result, primary_requests>>
    /\ UNCHANGED othersOfGeo

\* Line 74: return final_places_and_points.
GeoReturn ==
    /\ geo_pc = "return"
    /\ geo_pc' = "returned"
    /\ geo_result' = final_places_and_points
    /\ UNCHANGED <<place_names, primary_answer, secondary_answer, geo_error,
                   nominatim_results, places_missed_by_nominatim,
                   final_places_and_points, primary_requests, secondary_requests>>
    /\ UNCHANGED othersOfGeo

NextGeo ==
    \/ GeoPrimaryPass
    \/ GeoCollect
    \/ GeoSecondaryPass
    \/ GeoReturn

-----------------------------------------------------------------------------
(*                  THE TABLE AND ITS TRANSFORMS                           *)

\* A cell of a table: a kind and the payload of that kind.
Cell(kind, v) == [kind |-> kind, v |-> v]

RECURSIVE Gcd(_, _)
Gcd(a, b) == IF b = 0 THEN a ELSE Gcd(b, a % b)

IntCell(n) == Cell("int", <<n>>)
\* The float num/den, in lowest terms.
FloatCell(num, den) ==
    LET g == Gcd(IF num < 0 THEN -num ELSE num, den)
    IN Cell("float", <<num \div g, den \div g>>)
NaN == Cell("nan", <<>>)
\* A raw value of the {scenario}_hour column that parses as a time.
RawTime(hour, dayofweek) == Cell("rawtime", <<hour, dayofweek>>)
\* A raw value that does not parse.
Unparseable == Cell("text", <<>>)
Timestamp(hour, dayofweek) == Cell("timestamp", <<hour, dayofweek>>)
NaT == Cell("NaT", <<>>)
Str(name) == Cell("str", name)

\* pandas' isna of one cell.
isna(cell) == cell.kind \in {"nan", "NaT"}

\* pd.to_datetime(..., errors="coerce") of one cell: what does not parse is NaT.
to_datetime(cell) ==
    IF cell.kind \in {"rawtime", "timestamp"} THEN Timestamp(cell.v[1], cell.v[2]) ELSE NaT

\* x.hour and x.dayofweek of a Timestamp; both are nan for NaT.
hour_of(x) == IF x.kind = "timestamp" THEN IntCell(x.v[1]) ELSE NaN
dayofweek_of(x) == IF x.kind = "timestamp" THEN IntCell(x.v[2]) ELSE NaN

\* The column names that depend on the scenario.
HourColumn(scen) == IF scen = "start" THEN "start_hour" ELSE "end_hour"
StationNameColumn(scen) ==
    IF scen = "start" THEN "start_station_name" ELSE "end_station_name"
LatitudeColumn(scen) == IF scen = "start" THEN "start_latitude" ELSE "end_latitude"
LongitudeColumn(scen) == IF scen = "start" THEN "start_longitude" ELSE "end_longitude"

\* f"trips_previous_{k * 7 * 24}_hour" for k = 1..4 (lines 191-194).
LagColumn(k) ==
    LET hours == k * 7 * 24
    IN CASE hours = 168 -> "trips_previous_168_hour"
         [] hours = 336 -> "trips_previous_336_hour"
         [] hours = 504 -> "trips_previous_504_hour"
         [] hours = 672 -> "trips_previous_672_hour"

AverageColumn == "average_trips_last_4_weeks"
HourFeature == "hour"
DayFeature == "day_of_the_week"

\* A table: its column names in order, the cells of each column, its row count.
Table(columns, data, n) == [columns |-> columns, data |-> data, n |-> n]

HasColumn(t, c) == c \in Range(t.columns)

\* A faulty variant of no_nulls: the null count is not looked at.
no_nulls_unchecked(column) == TRUE

\* column.isna().sum() == 0
no_nulls(column) == \A i \in 1..Len(column) : ~ isna(column[i])

\* A new last column (the column must not exist yet).
with_new_column(t, c, values) ==
    Table(Append(t.columns, c),
          [x \in Range(t.columns) \cup {c} |-> IF x = c THEN values ELSE t.data[x]],
          t.n)

\* features[c] = values : replaces the column in place, or appends a new one.
setitem(t, c, values) ==
    IF HasColumn(t, c)
    THEN Table(t.columns, [x \in Range(t.columns) |-> IF x = c THEN values ELSE t.data[x]], t.n)
    ELSE with_new_column(t, c, values)

RECURSIVE without(_, _)
without(columns, c) ==
    IF columns = <<>> THEN <<>>
    ELSE IF Head(columns) = c THEN without(Tail(columns), c)
         ELSE <<Head(columns)>> \o without(Tail(columns), c)

\* features.drop(c, axis=1): a new table without the column.
drop(t, c) ==
    Table(without(t.columns, c), [x \in Range(t.columns) \ {c} |-> t.data[x]], t.n)

\* a + b of two cells of an integer or float column: nan is absorbing.
plus(a, b) == IF isna(a) \/ isna(b) THEN NaN ELSE IntCell(a.v[1] + b.v[1])

\* 0.25 * x
quarter(x) == IF isna(x) THEN NaN ELSE FloatCell(x.v[1], 4)

\* Lines 190-195: the column of averages.
averages(t) ==
    [i \in 1..t.n |->
        quarter(plus(plus(plus(t.data[LagColumn(1)][i], t.data[LagColumn(2)][i]),
                          t.data[LagColumn(3)][i]),
                     t.data[LagColumn(4)][i]))]

\* A faulty variant of add_avg_trips_last_4_weeks: no test for the column, the
\* averages are computed and assigned on every call.
add_avg_trips_always(t) ==
    IF \E k \in 1..4 : ~ HasColumn(t, LagColumn(k))
    THEN [raised |-> TRUE, error |-> "KeyError", table |-> t]
    ELSE [raised |-> FALSE, error |-> "none",
          table |-> [columns |-> IF AverageColumn \in Range(t.columns) THEN t.columns
                                 ELSE Append(t.columns, AverageColumn),
                     data |-> [x \in Range(t.columns) \cup {AverageColumn} |->
                                IF x = AverageColumn
                                THEN [i \in 1..t.n |->
                                        IF \E k \in 1..4 : t.data[LagColumn(k)][i].kind = "nan"
                                        THEN [kind |-> "nan", v |-> <<>>]
                                        ELSE [kind |-> "float",
                                              v |-> <<t.data[LagColumn(1)][i].v[1]
                                                      + t.data[LagColumn(2)][i].v[1]
                                                      + t.data[LagColumn(3)][i].v[1]
                                                      + t.data[LagColumn(4)][i].v[1], 4>>]]
                                ELSE t.data[x]],
                     n |-> t.n]]

\* Lines 181-203: add_avg_trips_last_4_weeks. Reading a missing lag column raises
\* KeyError; the column is inserted into the table handed in.
add_avg_trips_last_4_weeks(t) ==
    IF HasColumn(t, AverageColumn)
    THEN [raised |-> FALSE, error |-> "none", table |-> t]
    ELSE IF \E k \in 1..4 : ~ HasColumn(t, LagColumn(k))
    THEN [raised |-> TRUE, error |-> "KeyError", table |-> t]
    ELSE [raised |-> FALSE, error |-> "none",
          table |-> with_new_column(t, AverageColumn, averages(t))]

\* Lines 206-231: add_hours_and_days. `features` is the caller's table after the
\* call (line 217 and the inserts act on it in place), `returned` the new table
\* drop() makes. DataFrame.insert raises ValueError for a column that exists.
add_hours_and_days(t, scen) ==
    LET hc == HourColumn(scen)
    IN IF ~ HasColumn(t, hc)
       THEN [raised |-> TRUE, error |-> "KeyError", features |-> t, returned |-> t]
       ELSE
       LET t1 == setitem(t, hc, [i \in 1..t.n |-> to_datetime(t.data[hc][i])])
           hours == [i \in 1..t.n |-> hour_of(t1.data[hc][i])]
           days == [i \in 1..t.n |-> dayofweek_of(t1.data[hc][i])]
       IN IF HasColumn(t1, HourFeature)
          THEN [raised |-> TRUE, error |-> "ValueError", features |-> t1, returned |-> t1]
          ELSE
          LET t2 == with_new_column(t1, HourFeature, hours)
          IN IF HasColumn(t2, DayFeature)
             THEN [raised |-> TRUE, error |-> "ValueError", features |-> t2, returned |-> t2]
             ELSE LET t3 == with_new_column(t2, DayFeature, days)
                  IN [raised |-> FALSE, error |-> "none", features |-> t3,
                      returned |-> drop(t3, hc)]

\* Line 271: assert "day_of_the_week" and "average_trips_last_4_weeks" in columns.
\* `a and b` of a non-empty str a is b: only the average column is looked up.
first_assertion(t) == HasColumn(t, AverageColumn)

\* Lines 271-273: the error the two assert statements end in, "none" if they pass.
\* Line 272 reads the two columns (KeyError if one is missing); `and` does not
\* evaluate its right operand when the left one is false.
postcondition_error(t) ==
    IF ~ first_assertion(t) THEN "AssertionError"
    ELSE IF ~ HasColumn(t, DayFeature) THEN "KeyError"
    ELSE IF ~ no_nulls(t.data[DayFeature]) THEN "AssertionError"
    ELSE IF ~ HasColumn(t, AverageColumn) THEN "KeyError"
    ELSE IF ~ no_nulls(t.data[AverageColumn]) THEN "AssertionError"
    ELSE "none"

\* Geocoder.geocode as one function of the place names and the two services.
geocode_call(names, primary, secondary) ==
    LET first == trigger_geocoder(primary, names)
    IN IF first.raised THEN [raised |-> TRUE, error |-> first.error, result |-> EmptyDict]
       ELSE
       LET missed == collect_missed(first.places_and_points, 1, <<>>)
       IN IF missed.raised THEN [raised |-> TRUE, error |-> "ValueError", result |-> EmptyDict]
          ELSE
          LET second == trigger_geocoder(secondary, missed.missed)
          IN IF second.raised
             THEN [raised |-> TRUE, error |-> second.error, result |-> EmptyDict]
             ELSE [raised |-> FALSE, error |-> "none", result |-> second.places_and_points]

\* Series.unique(): the distinct values in order of first occurrence.
RECURSIVE unique(_)
unique(column) ==
    IF column = <<>> THEN <<>>
    ELSE LET front == unique(SubSeq(column, 1, Len(column) - 1))
             last == column[Len(column)]
         IN IF last \in Range(front) THEN front ELSE Append(front, last)

\* The point a dict holds for a key.
PointOf(dict, place) == (CHOOSE i \in 1..Len(dict) : dict[i].place = place)

\* Lines 243-246: both lists take component 0 of the point of each place name
\* that is a key of the result.
RECURSIVE latitudes_of(_, _)
latitudes_of(names, places_and_points) ==
    IF names = <<>> THEN <<>>
    ELSE LET rest == latitudes_of(Tail(names), places_and_points)
         IN IF Head(names) \in Keys(places_and_points)
            THEN <<places_and_points[PointOf(places_and_points, Head(names))].point[1]>> \o rest
            ELSE rest

\* pd.Series(values) assigned as a column: aligned on the row labels 0, 1, ...;
\* rows past the end of the list are nan.
series_column(values, n) ==
    [i \in 1..n |-> IF i <= Len(values) THEN FloatCell(values[i], 1) ELSE NaN]

\* Lines 21-26 and 234-251: add_coordinates_to_dataframe. has_to_list says whether
\* the array unique() returns has a to_list method (a numpy array has none).
add_coordinates_to_dataframe(t, scen, has_to_list, primary, secondary) ==
    IF ~ HasColumn(t, StationNameColumn(scen))
    THEN [raised |-> TRUE, error |-> "KeyError", table |-> t]
    ELSE IF ~ has_to_list
    THEN [raised |-> TRUE, error |-> "AttributeError", table |-> t]
    ELSE
    LET names == [i \in 1..Len(unique(t.data[StationNameColumn(scen)])) |->
                    unique(t.data[StationNameColumn(scen)])[i].v]
        g == geocode_call(names, primary, secondary)
    IN IF g.raised THEN [raised |-> TRUE, error |-> g.error, table |-> t]
       ELSE
       LET latitudes == latitudes_of(names, g.result)
           longitudes == latitudes_of(names, g.result)
           t1 == setitem(t, LatitudeColumn(scen), series_column(latitudes, t.n))
           t2 == setitem(t1, LongitudeColumn(scen), series_column(longitudes, t.n))
       IN [raised |-> FALSE, error |-> "none", table |-> t2]

-----------------------------------------------------------------------------
(*                    finish_feature_engineering                           *)

\* The rows of the tables: a station name, a raw hour, the four weekly lags.
RawHours == { RawTime(8, 0), RawTime(23, 6), Unparseable }
LagRows == { <<IntCell(10), IntCell(20), IntCell(30), IntCell(40)>>,
             <<NaN, IntCell(2), IntCell(3), IntCell(5)>> }
RowNames == { <<"S", "t">>, <<"O", "a", "k">> }
Rows == [name : RowNames, hour : RawHours, lags : LagRows]

\* The shapes of the tables: the raw table, one that already holds the average, one
\* without its last lag column, ones that already hold "hour" or "day_of_the_week",
\* one without the {scenario}_hour column.
Shapes == {"raw", "has_average", "no_lag", "has_hour", "has_day", "no_hour_column"}

RawTable(rows, scen) ==
    LET n == Len(rows)
        columns == <<StationNameColumn(scen), HourColumn(scen),
                     LagColumn(1), LagColumn(2), LagColumn(3), LagColumn(4)>>
    IN Table(columns,
             [c \in Range(columns) |->
                [i \in 1..n |->
                    IF c = StationNameColumn(scen) THEN Str(rows[i].name)
                    ELSE IF c = HourColumn(scen) THEN rows[i].hour
                    ELSE rows[i].lags[CHOOSE k \in 1..4 : LagColumn(k) = c]]],
             n)

ShapedTable(rows, scen, shape) ==
    LET raw == RawTable(rows, scen)
    IN CASE shape = "raw" -> raw
         [] shape = "has_average" -> with_new_column(raw, AverageColumn, averages(raw))
         [] shape = "no_lag" -> drop(raw, LagColumn(4))
         [] shape = "has_hour" ->
                with_new_column(raw, HourFeature, [i \in 1..raw.n |-> IntCell(8)])
         [] shape = "has_day" ->
                with_new_column(raw, DayFeature, [i \in 1..raw.n |-> IntCell(0)])
         [] shape = "no_hour_column" -> drop(raw, HourColumn(scen))

EmptyTable == Table(<<>>, <<>>, 0)

IdleFE ==
    /\ features = EmptyTable
    /\ scenario = "start"
    /\ geocode = FALSE
    /\ fe_pc = "idle"
    /\ fe_raised_in = "none"
    /\ fe_error = "none"
    /\ final_features = EmptyTable
    /\ fe_result = EmptyTable

\* The call finish_feature_engineering(features, scenario, geocode) is entered.
InitFE ==
    /\ scenario \in {"start", "end"}
    /\ geocode \in BOOLEAN
    /\ \E rows \in SeqsUpTo(Rows, MaxRows), shape \in Shapes :
            features = ShapedTable(rows, scenario, shape)
    /\ fe_pc = "start"
    /\ fe_raised_in = "none"
    /\ fe_error = "none"
    /\ final_features = EmptyTable
    /\ fe_result = EmptyTable

\* Line 268: features_with_hours_and_days = add_hours_and_days(features, scenario).
FEAddHoursAndDays ==
    /\ fe_pc = "start"
    /\ LET r == add_hours_and_days(features, scenario)
       IN /\ features' = r.features
          /\ IF r.raised
             THEN /\ fe_pc' = "raised"
                  /\ fe_raised_in' = "hours_days"
                  /\ fe_error' = r.error
                  /\ UNCHANGED final_features
             ELSE /\ fe_pc' = "hours_days"
                  /\ final_features' = r.returned
                  /\ UNCHANGED <<fe_raised_in, fe_error>>
    /\ UNCHANGED <<scenario, geocode, fe_result>>
    /\ UNCHANGED othersOfFE

\* Line 269: final_features = add_avg_trips_last_4_weeks(features_with_hours_and_days).
FEAddAverage ==
    /\ fe_pc = "hours_days"
    /\ LET r == add_avg_trips_last_4_weeks(final_features)
       IN /\ final_features' = r.table
          /\ IF r.raised
             THEN /\ fe_pc' = "raised"
                  /\ fe_raised_in' = "average"
                  /\ fe_error' = r.error
             ELSE /\ fe_pc' = "average"
                  /\ UNCHANGED <<fe_raised_in, fe_error>>
    /\ UNCHANGED <<features, scenario, geocode, fe_result>>
    /\ UNCHANGED othersOfFE

\* Lines 271-273: the two assert statements.
FEAssert ==
    /\ fe_pc = "average"
    /\ LET error == postcondition_error(final_features)
       IN IF error # "none"
          THEN /\ fe_pc' = "raised"
               /\ fe_raised_in' = "assert"
               /\ fe_error' = error
          ELSE /\ fe_pc' = "checked"
               /\ UNCHANGED <<fe_raised_in, fe_error>>
    /\ UNCHANGED <<features, scenario, geocode, final_features, fe_result>>
    /\ UNCHANGED othersOfFE

\* Lines 275-277 with geocode false: return final_features.
FEReturn ==
    /\ fe_pc = "checked"
    /\ ~ geocode
    /\ fe_pc' = "returned"
    /\ fe_result' = final_features
    /\ UNCHANGED <<features, scenario, geocode, fe_raised_in, fe_error, final_features>>
    /\ UNCHANGED othersOfFE

\* The place names of the caller's table: the names the two services are asked.
StationNames(t, scen) ==
    IF HasColumn(t, StationNameColumn(scen))
    THEN {t.data[StationNameColumn(scen)][i].v : i \in 1..t.n}
    ELSE {}

\* Lines 275-277 with geocode true: final_features =
\* add_coordinates_to_dataframe(features=features, scenario=scenario), on the
\* caller's table, then return it. The services and the array type are the
\* environment.
FEAddCoordinates(has_to_list, primary, secondary) ==
    /\ fe_pc = "checked"
    /\ geocode
    /\ LET r == add_coordinates_to_dataframe(features, scenario, has_to_list,
                                             primary, secondary)
       IN /\ features' = r.table
          /\ IF r.raised
             THEN /\ fe_pc' = "raised"
                  /\ fe_raised_in' = "coordinates"
                  /\ fe_error' = r.error
                  /\ UNCHANGED <<final_features, fe_result>>
             ELSE /\ fe_pc' = "returned"
                  /\ final_features' = r.table
                  /\ fe_result' = r.table
                  /\ UNCHANGED <<fe_raised_in, fe_error>>
    /\ UNCHANGED <<scenario, geocode>>
    /\ UNCHANGED othersOfFE

NextFE ==
    \/ FEAddHoursAndDays
    \/ FEAddAverage
    \/ FEAssert
    \/ FEReturn
    \/ \E has_to_list \in BOOLEAN,
          primary \in [StationNames(features, scenario) -> GeocodeAnswers],
          secondary \in [StationNames(features, scenario) -> GeocodeAnswers] :
            FEAddCoordinates(has_to_list, primary, secondary)

-----------------------------------------------------------------------------
(*           add_avg_trips_last_4_weeks APPLIED REPEATEDLY                 *)

\* A table that already holds an average column, with values of its own.
StaleAverageTable(rows, scen) ==
    LET raw == RawTable(rows, scen)
    IN with_new_column(raw, AverageColumn, [i \in 1..raw.n |-> FloatCell(7, 1)])

\* The tables handed to add_avg_trips_last_4_weeks.
AverageInputs ==
    { ShapedTable(rows, scen, shape) :
        rows \in SeqsUpTo(Rows, MaxRows), scen \in {"start", "end"},
        shape \in {"raw", "has_average", "no_lag"} }
    \cup { StaleAverageTable(rows, scen) :
            rows \in SeqsUpTo(Rows, MaxRows), scen \in {"start", "end"} }

IdleAvg ==
    /\ avg_table = EmptyTable
    /\ avg_input = EmptyTable
    /\ avg_once = EmptyTable
    /\ avg_applied = 0
    /\ avg_error = "none"

InitAvg ==
    /\ avg_table \in AverageInputs
    /\ avg_input = avg_table
    /\ avg_once = avg_table
    /\ avg_applied = 0
    /\ avg_error = "none"

\* One call features = add_avg_trips_last_4_weeks(features).
ApplyAverage ==
    /\ avg_applied < MaxApply
    /\ LET r == add_avg_trips_last_4_weeks(avg_table)
       IN /\ avg_table' = r.table
          /\ avg_error' = r.error
          /\ avg_once' = IF avg_applied = 0 THEN r.table ELSE avg_once
    /\ avg_applied' = avg_applied + 1
    /\ UNCHANGED avg_input
    /\ UNCHANGED othersOfAvg

NextAvg == ApplyAverage

-----------------------------------------------------------------------------
(*        rerun_feature_pipeline AROUND load_raw_local_geodata             *)

\* What a directory can be: absent, empty, holding other files only, or holding
\* the geodata file of one scenario with text that is not JSON or with one of two
\* registries.
Registries == {"geodata_a", "geodata_b"}
Directory(kind, scen, content) == [kind |-> kind, scenario |-> scen, content |-> content]
MissingDirectory == Directory("missing", "none", "none")
EmptyDirectory == Directory("empty", "none", "none")
OtherFilesOnly == Directory("other_files", "none", "none")
DirectoryStates ==
    {MissingDirectory, EmptyDirectory, OtherFilesOnly}
    \cup { Directory("geodata", scen, content) :
             scen \in {"start", "end"}, content \in {"corrupt"} \cup Registries }

\* The outcome of an invocation: what it returned or the exception it raised.
Returned(value) == [outcome |-> "returned", value |-> value]
Raised(error) == [outcome |-> "raised", value |-> error]
NotInvoked == [outcome |-> "none", value |-> "none"]

\* os.listdir(directory): the number of entries, or FileNotFoundError.
listdir(directory) ==
    IF directory.kind = "missing" THEN Raised("FileNotFoundError")
    ELSE Returned(IF directory.kind = "empty" THEN 0 ELSE 1)

\* Lines 262-265: open f"{scenario}_geodata.json" in the chosen directory and
\* json.load it.
open_and_load(directory, scen) ==
    IF directory.kind = "geodata" /\ directory.scenario = scen
    THEN IF directory.content \in Registries THEN Returned(directory.content)
         ELSE Raised("JSONDecodeError")
    ELSE Raised("FileNotFoundError")

\* Lines 238-265: load_raw_local_geodata, the wrapped function.
load_raw_local_geodata(rounding, mixed, scen) ==
    IF listdir(rounding).outcome = "raised" THEN listdir(rounding)
    ELSE IF listdir(rounding).value # 0 THEN open_and_load(rounding, scen)
    ELSE IF listdir(mixed).outcome = "raised" THEN listdir(mixed)
    ELSE IF listdir(mixed).value # 0 THEN open_and_load(mixed, scen)
    ELSE Raised("FileNotFoundError")

\* Line 225: except FileNotFoundError.
is_missing_file(result) == result.outcome = "raised" /\ result.value = "FileNotFoundError"

IdleRerun ==
    /\ rounding_indexer = MissingDirectory
    /\ mixed_indexer = MissingDirectory
    /\ rr_scenario = "start"
    /\ rr_pc = "idle"
    /\ rr_fn_calls = 0
    /\ rr_pipeline_runs = 0
    /\ rr_first = NotInvoked
    /\ rr_result = NotInvoked

InitRerun ==
    /\ rounding_indexer \in DirectoryStates
    /\ mixed_indexer \in DirectoryStates
    /\ rr_scenario \in {"start", "end"}
    /\ rr_pc = "called"
    /\ rr_fn_calls = 0
    /\ rr_pipeline_runs = 0
    /\ rr_first = NotInvoked
    /\ rr_result = NotInvoked

\* Lines 223-225: the first invocation inside try.
RRCall ==
    /\ rr_pc = "called"
    /\ LET r == load_raw_local_geodata(rounding_indexer, mixed_indexer, rr_scenario)
       IN /\ rr_first' = r
          /\ rr_pc' = IF r.outcome = "returned" THEN "returned"
                      ELSE IF is_missing_file(r) THEN "handling"
                      ELSE "raised"
          /\ rr_result' = IF is_missing_file(r) THEN rr_result ELSE r
    /\ rr_fn_calls' = rr_fn_calls + 1
    /\ UNCHANGED <<rounding_indexer, mixed_indexer, rr_scenario, rr_pipeline_runs>>
    /\ UNCHANGED othersOfRerun

\* Lines 226-229: the handler logs the error and a warning, then evaluates
\* st.spinner(message). The module never binds the name st, so line 229 raises
\* NameError and the exception leaves the wrapper; lines 231-233 (the pipeline and
\* the second invocation) are never reached.
RRHandler ==
    /\ rr_pc = "handling"
    /\ rr_pc' = "raised"
    /\ rr_result' = Raised("NameError")
    /\ UNCHANGED <<rounding_indexer, mixed_indexer, rr_scenario, rr_fn_calls,
                   rr_pipeline_runs, rr_first>>
    /\ UNCHANGED othersOfRerun

NextRerun ==
    \/ RRCall
    \/ RRHandler

-----------------------------------------------------------------------------
(*                   add_coordinates_to_dataframe                          *)

\* The rows of the tables handed over: they differ in the station name only.
CoordRows == [name : PlaceNames, hour : {RawTime(8, 0)},
              lags : {<<IntCell(10), IntCell(20), IntCell(30), IntCell(40)>>}]

\* What the two services can do with a name; Nominatim knows two places.
PrimaryAnswers == { Location(<<41, -87>>), Location(<<42, -88>>), NoResult, ServiceError }
SecondaryAnswers == { Location(<<40, -86>>), ServiceError }

IdleCoord ==
    /\ coord_features = EmptyTable
    /\ coord_input = EmptyTable
    /\ coord_scenario = "start"
    /\ coord_primary = <<>>
    /\ coord_secondary = <<>>
    /\ coord_has_to_list = FALSE
    /\ coord_pc = "idle"
    /\ coord_error = "none"
    /\ coord_result = EmptyTable

InitCoord ==
    /\ coord_scenario \in {"start"}
    /\ coord_features \in { RawTable(rows, coord_scenario) :
                              rows \in SeqsUpTo(CoordRows, MaxCoordRows) }
    /\ coord_input = coord_features
    /\ coord_primary \in [PlaceNames -> PrimaryAnswers]
    /\ coord_secondary \in [PlaceNames -> SecondaryAnswers]
    /\ coord_has_to_list \in BOOLEAN
    /\ coord_pc = "start"
    /\ coord_error = "none"
    /\ coord_result = EmptyTable

\* One call add_coordinates_to_dataframe(features=features, scenario=scenario).
CoordCall ==
    /\ coord_pc = "start"
    /\ LET r == add_coordinates_to_dataframe(coord_features, coord_scenario,
                                             coord_has_to_list, coord_primary,
                                             coord_secondary)
       IN /\ coord_features' = r.table
          /\ coord_pc' = IF r.raised THEN "raised" ELSE "returned"
          /\ coord_error' = r.error
          /\ coord_result' = IF r.raised THEN coord_result ELSE r.table
    /\ UNCHANGED <<coord_input, coord_scenario, coord_primary, coord_secondary,
                   coord_has_to_list>>
    /\ UNCHANGED othersOfCoord

NextCoord == CoordCall

-----------------------------------------------------------------------------
(*                        THE SPECIFICATIONS                               *)

\* The registry operations, the other components idle.
RegInit ==
    /\ InitReg
    /\ IdleRev
    /\ IdleGeo
    /\ IdleFE
    /\ IdleAvg
    /\ IdleRerun
    /\ IdleCoord

SpecReg == RegInit /\ [][NextReg]_vars

\* One reverse_geocode call, the other components idle.
RevInit ==
    /\ InitRev
    /\ IdleReg
    /\ IdleGeo
    /\ IdleFE
    /\ IdleAvg
    /\ IdleRerun
    /\ IdleCoord

SpecRev == RevInit /\ [][NextRev]_vars

\* One Geocoder.geocode call, the other components idle.
GeoInit ==
    /\ InitGeo
    /\ IdleReg
    /\ IdleRev
    /\ IdleFE
    /\ IdleAvg
    /\ IdleRerun
    /\ IdleCoord

SpecGeo == GeoInit /\ [][NextGeo]_vars

\* One finish_feature_engineering call, the other components idle.
FEInit ==
    /\ InitFE
    /\ IdleReg
    /\ IdleRev
    /\ IdleGeo
    /\ IdleAvg
    /\ IdleRerun
    /\ IdleCoord

SpecFE == FEInit /\ [][NextFE]_vars

\* add_avg_trips_last_4_weeks applied repeatedly, the other components idle.
AvgInit ==
    /\ InitAvg
    /\ IdleReg
    /\ IdleRev
    /\ IdleGeo
    /\ IdleFE
    /\ IdleRerun
    /\ IdleCoord

SpecAvg == AvgInit /\ [][NextAvg]_vars

\* One call of the wrapped load_raw_local_geodata, the other components idle.
RerunInit ==
    /\ InitRerun
    /\ IdleReg
    /\ IdleRev
    /\ IdleGeo
    /\ IdleFE
    /\ IdleAvg
    /\ IdleCoord

SpecRerun == RerunInit /\ [][NextRerun]_vars

\* One call of add_coordinates_to_dataframe, the other components idle.
CoordInit ==
    /\ InitCoord
    /\ IdleReg
    /\ IdleRev
    /\ IdleGeo
    /\ IdleFE
    /\ IdleAvg
    /\ IdleRerun

SpecCoord == CoordInit /\ [][NextCoord]_vars

-----------------------------------------------------------------------------
(*                  PROPERTIES OF THE GEO REGISTRY                         *)

DistinctIds(registry) ==
    \A i, j \in 1..Len(registry) :
        i # j => registry[i].station_id # registry[j].station_id

MaxId(registry) ==
    CHOOSE m \in StationIds(registry) : \A x \in StationIds(registry) : x <= m

\* The records `new` with the same names and coordinates as `before`, in order.
SameRecordsInOrder(new, before) ==
    /\ Len(new) = Len(before)
    /\ \A i \in 1..Len(new) :
        /\ new[i].station_name = before[i].station_name
        /\ new[i].coordinate = before[i].coordinate

\* C1 (as claimed): for every non-empty registry and every list of k new records,
\* give_ids_to_the_new_names returns and the i-th new record carries the id
\* max(existing station_ids) + i, for i = 1..k.
C1_ConsecutiveIdsFromMax ==
    (reg_op # "none" /\ reg_before # <<>>) =>
        /\ reg_outcome = "returned"
        /\ SameRecordsInOrder(new_addresses_and_coordinates, new_before)
        /\ \A i \in 1..Len(new_addresses_and_coordinates) :
            /\ HasId(new_addresses_and_coordinates[i])
            /\ new_addresses_and_coordinates[i].station_id = MaxId(reg_before) + i

\* C7: from a non-empty seed registry with pairwise distinct station_ids, the
\* station_ids of the registry stay pairwise distinct after any sequence of calls
\* (completed or failed), and every id a put_new_information_in_geodata call added
\* is greater than every id the registry held before that call.
C7_IdsStayDistinctAndGrow ==
    (reg_seed # <<>> /\ DistinctIds(reg_seed)) =>
        /\ DistinctIds(saved_geodata)
        /\ reg_op = "put" =>
            \A i \in (Len(reg_before) + 1)..Len(saved_geodata) :
                \A j \in 1..Len(reg_before) :
                    saved_geodata[i].station_id > reg_before[j].station_id

\* C7 witness: a second call in a row has added two records to a registry that
\* started non-empty and distinct.
C7_Witness ==
    /\ reg_seed # <<>> /\ DistinctIds(reg_seed)
    /\ reg_calls = 2
    /\ reg_op = "put" /\ reg_outcome = "returned"
    /\ Len(reg_before) > Len(reg_seed)
    /\ Len(saved_geodata) >= Len(reg_before) + 2

\* C8: a completed put_new_information_in_geodata leaves the registry equal to the
\* old registry followed by the new records in their given order, each carrying a
\* station_id; and the registry never gets shorter.
C8_RegistryExtendedInPlace ==
    /\ Len(saved_geodata) >= Len(reg_seed)
    /\ reg_op # "none" => Len(saved_geodata) >= Len(reg_before)
    /\ (reg_op = "put" /\ reg_outcome = "returned") =>
        /\ saved_geodata = reg_before \o new_addresses_and_coordinates
        /\ SubSeq(saved_geodata, 1, Len(reg_before)) = reg_before
        /\ SameRecordsInOrder(new_addresses_and_coordinates, new_before)
        /\ \A i \in 1..Len(new_addresses_and_coordinates) :
            HasId(new_addresses_and_coordinates[i])

\* C8 witness: a completed put call appended two or more records to a registry
\* of at least two records.
C8_Witness ==
    /\ reg_op = "put" /\ reg_outcome = "returned"
    /\ Len(reg_before) >= 2
    /\ Len(new_before) >= 2
    /\ Len(saved_geodata) = Len(reg_before) + Len(new_before)

\* C9: called with an empty registry, give_ids_to_the_new_names and
\* put_new_information_in_geodata fail with an error and leave the registry and
\* the new records unmodified.
C9_EmptyRegistryFails ==
    (reg_op # "none" /\ reg_before = <<>>) =>
        /\ reg_outcome = "ValueError"
        /\ saved_geodata = reg_before
        /\ new_addresses_and_coordinates = new_before

\* C9 witness: put_new_information_in_geodata was called with an empty registry
\* and new records, and failed.
C9_Witness ==
    /\ reg_op = "put"
    /\ reg_before = <<>>
    /\ Len(new_before) >= 2
    /\ reg_outcome = "ValueError"

-----------------------------------------------------------------------------
(*                  PROPERTIES OF reverse_geocode                          *)

Resolved(fate) == fate \in {"primary", "secondary"}

\* The coordinates of the input positions whose fate is a resolution, in order.
RECURSIVE ResolvedCoordinates(_, _)
ResolvedCoordinates(fate, coords) ==
    IF fate = <<>> THEN <<>>
    ELSE LET n == Len(fate)
             front == ResolvedCoordinates(SubSeq(fate, 1, n - 1), coords)
         IN IF Resolved(fate[n]) THEN Append(front, coords[n]) ELSE front

\* C5: the output of reverse_geocode holds at most one record per distinct
\* coordinate, and an input position whose coordinate was resolved at an earlier
\* position of the same call is skipped.
C5_OneRecordPerCoordinate ==
    /\ \A i, j \in 1..Len(new_geodata) :
        i # j => new_geodata[i].coordinate # new_geodata[j].coordinate
    /\ \A i \in 1..Len(rev_fate) :
        (\E j \in 1..(i - 1) : coordinates[j] = coordinates[i] /\ Resolved(rev_fate[j]))
            => rev_fate[i] = "skipped"

\* C5 witness: the spec's example: a coordinate resolved, the same coordinate
\* again (skipped), and a third coordinate dropped; one record in the output.
C5_Witness ==
    /\ rev_pc = "returned"
    /\ Len(coordinates) = 3
    /\ coordinates[1] = coordinates[2]
    /\ coordinates[3] = <<0, 0>>
    /\ rev_fate = <<"primary", "skipped", "dropped">>
    /\ Len(new_geodata) = 1

\* C6: a coordinate on which Nominatim and then Photon raise adds no record, the
\* call does not raise and goes on to every later coordinate; a coordinate resolved
\* by either service adds one record that holds the original coordinate. So the
\* coordinates of the output are those of the resolved positions, in input order.
C6_DroppedOrRecorded ==
    /\ rev_pc \in {"loop", "returned"}
    /\ Len(rev_fate) = rev_idx - 1
    /\ rev_pc = "returned" => Len(rev_fate) = Len(coordinates)
    /\ [k \in 1..Len(new_geodata) |-> new_geodata[k].coordinate]
            = ResolvedCoordinates(rev_fate, coordinates)
    /\ \A i \in 1..Len(rev_fate) :
        (rev_fate[i] = "dropped"
            /\ \A j \in 1..Len(rev_fate) : coordinates[j] = coordinates[i] => ~ Resolved(rev_fate[j]))
        => \A k \in 1..Len(new_geodata) : new_geodata[k].coordinate # coordinates[i]

\* C6 witness: the first coordinate was dropped, and the call went on to resolve
\* the second with Photon and the third with Nominatim, and returned.
C6_Witness ==
    /\ rev_pc = "returned"
    /\ rev_fate = <<"dropped", "secondary", "primary">>
    /\ Len(new_geodata) = 2
    /\ new_geodata[1].coordinate = coordinates[2]
    /\ new_geodata[2].coordinate = coordinates[3]
    /\ coordinates[1] \notin {coordinates[2], coordinates[3]}

-----------------------------------------------------------------------------
(*                  PROPERTIES OF Geocoder.geocode                         *)

NoRepeat(requests) ==
    \A i, j \in 1..Len(requests) : i # j => requests[i] # requests[j]

Failed(answer, place) == answer[place].kind # "location"

HasItem(dict, place, point) ==
    \E i \in 1..Len(dict) : dict[i].place = place /\ dict[i].point = point

\* C2 (as claimed): within one geocode call, whatever each request does, Nominatim
\* receives at most one request per distinct name, so never more requests than
\* there are distinct names; and a call that returns has asked for every name.
C2_OnePrimaryRequestPerName ==
    /\ NoRepeat(primary_requests)
    /\ Len(primary_requests) <= Cardinality(Range(place_names))
    /\ geo_pc = "returned" => Range(primary_requests) = Range(place_names)

\* C3 (as claimed): the mapping geocode returns holds every name Nominatim
\* resolved, with exactly the coordinate Nominatim gave.
C3_PrimaryResultsKept ==
    geo_pc = "returned" =>
        \A place \in Range(place_names) :
            ~ Failed(primary_answer, place) =>
                HasItem(geo_result, place, primary_answer[place].point)

\* C4 (as claimed): when both services fail on a name, geocode still returns, and
\* the mapping holds that name with the sentinel (0, 0).
C4_BothFailGivesSentinel ==
    geo_pc \in {"returned", "raised"} =>
        \A place \in Range(place_names) :
            (Failed(primary_answer, place) /\ Failed(secondary_answer, place)) =>
                /\ geo_pc = "returned"
                /\ HasItem(geo_result, place, Sentinel)

-----------------------------------------------------------------------------
(*              PROPERTIES OF finish_feature_engineering                   *)

HasNull(column) == \E i \in 1..Len(column) : isna(column[i])

\* A column of the table is absent or holds a null.
AbsentOrNull(t, c) == ~ HasColumn(t, c) \/ HasNull(t.data[c])

PostconditionBroken(t) == AbsentOrNull(t, DayFeature) \/ AbsentOrNull(t, AverageColumn)

\* C10: after the hour/day step and the 4-week-average step, the call fails with an
\* AssertionError when day_of_the_week or average_trips_last_4_weeks is absent from
\* the working table or holds a null, and gets past the checks only when both are
\* present and free of nulls. (Both steps completed means both columns are present.)
C10_PostconditionsChecked ==
    /\ (fe_pc = "raised" /\ fe_raised_in = "assert") =>
            fe_error = "AssertionError" /\ PostconditionBroken(final_features)
    /\ fe_pc = "checked" => ~ PostconditionBroken(final_features)
    /\ fe_pc \in {"average", "checked"} =>
            HasColumn(final_features, DayFeature) /\ HasColumn(final_features, AverageColumn)

\* C10 witness: a two-row table with an unparseable hour and clean lags got through
\* both steps and failed the checks on the null in day_of_the_week alone.
C10_Witness ==
    /\ fe_pc = "raised" /\ fe_raised_in = "assert" /\ fe_error = "AssertionError"
    /\ final_features.n = 2
    /\ HasColumn(final_features, DayFeature)
    /\ HasColumn(final_features, AverageColumn)
    /\ HasNull(final_features.data[DayFeature])
    /\ ~ HasNull(final_features.data[AverageColumn])

\* The columns of a table, as a set.
ColumnSet(t) == Range(t.columns)

\* C11 (as claimed): a call with geocode = true that completes returns a table that
\* holds hour, day_of_the_week, average_trips_last_4_weeks, {scenario}_latitude and
\* {scenario}_longitude, and no longer holds {scenario}_hour.
C11_GeocodeColumnSet ==
    (fe_pc = "returned" /\ geocode) =>
        /\ {HourFeature, DayFeature, AverageColumn,
            LatitudeColumn(scenario), LongitudeColumn(scenario)} \subseteq ColumnSet(fe_result)
        /\ HourColumn(scenario) \notin ColumnSet(fe_result)

-----------------------------------------------------------------------------
(*            FURTHER PROPERTIES OF THE GEO REGISTRY                       *)

\* C16 (as claimed): for a non-empty registry, give_ids_to_the_new_names either
\* returns with every new record carrying a station_id, or fails with no new
\* record modified.
C16_AllOrNothing ==
    (reg_op # "none" /\ reg_before # <<>>) =>
        \/ /\ reg_outcome = "returned"
           /\ \A i \in 1..Len(new_addresses_and_coordinates) :
                HasId(new_addresses_and_coordinates[i])
        \/ /\ reg_outcome # "returned"
           /\ new_addresses_and_coordinates = new_before

-----------------------------------------------------------------------------
(*            FURTHER PROPERTIES OF Geocoder.geocode                       *)

Count(requests, x) == Cardinality({i \in 1..Len(requests) : requests[i] = x})

\* C14 (as claimed): Photon is queried only after the Nominatim pass has finished,
\* and by the end of the call it has been queried exactly once for every name
\* whose Nominatim result is the sentinel (a name Nominatim failed on) and for no
\* name Nominatim resolved.
C14_SecondaryGetsExactlyTheMissed ==
    /\ secondary_requests # <<>> => geo_pc \notin {"start", "collect"}
    /\ \A place \in Range(secondary_requests) : Failed(primary_answer, place)
    /\ geo_pc \in {"returned", "raised"} =>
        \A place \in Range(primary_requests) :
            Failed(primary_answer, place) => Count(secondary_requests, place) = 1

-----------------------------------------------------------------------------
(*            FURTHER PROPERTIES OF reverse_geocode                        *)

\* The coordinates of the input positions whose fate is one of `fates`, in order.
RECURSIVE CoordinatesWithFate(_, _, _)
CoordinatesWithFate(fate, coords, fates) ==
    IF fate = <<>> THEN <<>>
    ELSE LET n == Len(fate)
             front == CoordinatesWithFate(SubSeq(fate, 1, n - 1), coords, fates)
         IN IF fate[n] \in fates THEN Append(front, coords[n]) ELSE front

\* C15 (as claimed): within one reverse_geocode call each distinct coordinate is
\* sent to Nominatim at most once and to Photon at most once, also when the input
\* repeats a coordinate on which both services fail.
C15_NoDuplicateRequest ==
    /\ NoRepeat(primary_reverse_requests)
    /\ NoRepeat(secondary_reverse_requests)

\* C15 (as amended): no request is issued for a coordinate that was resolved
\* earlier in the call. Nominatim is asked at every input position that is not
\* skipped and Photon at every position where Nominatim raised, so a coordinate on
\* which both services raise is sent again at each later occurrence; a coordinate
\* is sent to a service at most once more than it was dropped.
C15_NoRequestOnceResolved ==
    /\ primary_reverse_requests =
            CoordinatesWithFate(rev_fate, coordinates, {"primary", "secondary", "dropped"})
    /\ secondary_reverse_requests =
            CoordinatesWithFate(rev_fate, coordinates, {"secondary", "dropped"})
    /\ \A i \in 1..Len(rev_fate) :
        rev_fate[i] # "skipped" =>
            ~ \E j \in 1..(i - 1) : coordinates[j] = coordinates[i] /\ Resolved(rev_fate[j])
    /\ \A c \in Range(coordinates) :
        LET dropped == Cardinality({i \in 1..Len(rev_fate) :
                                        coordinates[i] = c /\ rev_fate[i] = "dropped"})
        IN /\ Count(primary_reverse_requests, c) <= dropped + 1
           /\ Count(secondary_reverse_requests, c) <= dropped + 1

\* C15 witness: a coordinate dropped at its first occurrence is sent to both
\* services again at its second, resolved there by Photon, and skipped at its third.
C15_Witness ==
    /\ rev_pc = "returned"
    /\ Len(coordinates) = 3
    /\ coordinates[1] = coordinates[2] /\ coordinates[2] = coordinates[3]
    /\ rev_fate = <<"dropped", "secondary", "skipped">>
    /\ Count(primary_reverse_requests, coordinates[1]) = 2
    /\ Count(secondary_reverse_requests, coordinates[1]) = 2

-----------------------------------------------------------------------------
(*              PROPERTIES OF add_avg_trips_last_4_weeks                   *)

HasFourLags(t) == \A k \in 1..4 : HasColumn(t, LagColumn(k))

\* C13: add_avg_trips_last_4_weeks is idempotent: on a table holding the four lag
\* columns a second application yields the table of the first (columns, order and
\* values), which is the input with the average as its last column; applied to a
\* table that already holds average_trips_last_4_weeks it changes nothing.
C13_AverageIdempotent ==
    /\ avg_applied >= 2 => avg_table = avg_once
    /\ HasColumn(avg_input, AverageColumn) => (avg_table = avg_input /\ avg_error = "none")
    /\ (avg_applied >= 1 /\ HasFourLags(avg_input) /\ ~ HasColumn(avg_input, AverageColumn)) =>
        /\ avg_error = "none"
        /\ avg_table.columns = Append(avg_input.columns, AverageColumn)
        /\ \A c \in Range(avg_input.columns) : avg_table.data[c] = avg_input.data[c]

\* C13 witness: applied twice to a two-row table with the four lags and no average;
\* the average is there, as the last column.
C13_Witness ==
    /\ avg_applied = 2
    /\ avg_input.n = 2
    /\ HasFourLags(avg_input)
    /\ ~ HasColumn(avg_input, AverageColumn)
    /\ avg_table.columns[Len(avg_table.columns)] = AverageColumn
    /\ avg_table = avg_once

-----------------------------------------------------------------------------
(*                 PROPERTIES OF rerun_feature_pipeline                    *)

RerunFinished == rr_pc \in {"returned", "raised"}

\* C12: when the wrapped load_raw_local_geodata raises FileNotFoundError the
\* pipeline is run once and the function is then retried once: at the end of such
\* a call the pipeline has run exactly once, the function has been invoked at most
\* twice, and what the caller gets is the outcome of the pipeline or of the retry,
\* not an exception of the handler itself.
C12_RegenerateAndRetryOnce ==
    /\ rr_fn_calls <= 2
    /\ rr_pipeline_runs <= 1
    /\ (RerunFinished /\ rr_first = Raised("FileNotFoundError")) =>
        /\ rr_pipeline_runs = 1
        /\ rr_result # Raised("NameError")

-----------------------------------------------------------------------------
(*               PROPERTIES OF add_coordinates_to_dataframe                *)

\* The point a name resolves to: Nominatim's, else Photon's, else the sentinel.
ResolvedPoint(name) ==
    IF coord_primary[name].kind = "location" THEN coord_primary[name].point
    ELSE IF coord_secondary[name].kind = "location" THEN coord_secondary[name].point
    ELSE Sentinel

\* C17: in the table add_coordinates_to_dataframe returns, the {scenario}_latitude
\* of every row is the latitude resolved for the station name of that row, also
\* when a name is on several rows or the rows are not in order of first occurrence.
C17_LatitudeOfOwnStation ==
    coord_pc = "returned" =>
        \A i \in 1..coord_result.n :
            coord_result.data[LatitudeColumn(coord_scenario)][i]
                = FloatCell(ResolvedPoint(
                      coord_input.data[StationNameColumn(coord_scenario)][i].v)[1], 1)

====
